---- MODULE Spec2Model ----
(***************************************************************************)
(* The ImagePaths cursor of slideshow.py: a list of image paths, a         *)
(* position in it, a loop budget, and the operations __next__, prev,       *)
(* insert and delete.                                                      *)
(*                                                                         *)
(* A path is a positive integer (its rank among the files ever seen); 0    *)
(* stands for "no path" (Python's None, or an index that cannot be read).  *)
(* Positions are Python indices: 0-based, and a negative index i of a list *)
(* of length n denotes element n + i.                                      *)
(***************************************************************************)
EXTENDS Integers, Sequences, FiniteSets, TLC

VARIABLES
    pos,              \* self._pos
    paths,            \* self._paths
    loops_remaining,  \* self._loops_remaining
    rand_order,       \* self._rand_order
    show_new_next,    \* self._show_new_next
    result,           \* history: the last call, its argument and its outcome
    run,              \* history: the run of consecutive __next__ calls so far
    init_loops        \* history: loops_remaining as given to __init__

vars == <<pos, paths, loops_remaining, rand_order, show_new_next,
          result, run, init_loops>>

---------------------------------------------------------------------------
\* Bounds of the model.

\* longest list handed to __init__
MaxInitLen == 3

\* most files in a scanned directory tree
MaxFiles == 2

\* most insert calls in one behaviour
MaxInserts == 1

\* largest loops_remaining handed to __init__
MaxLoops == 1

\* how far past the end of the list __next__ may push pos
MaxOver == 1

MaxLen == MaxInitLen + MaxInserts

\* longest run of consecutive __next__ calls that is followed: from __init__,
\* one call past what the largest loop budget allows; from any later state,
\* one pass over the list
MaxRun == (MaxLoops + 1) * MaxInitLen + 1

RunLimit(r, ps) == IF r.fresh THEN MaxRun ELSE Len(ps)

AllPaths == 1..MaxLen

\* the path of a file created while the slideshow runs: one not in the list
\* (paths are numbered in the order the files are first seen)
NewPaths(ps) == {Len(ps) + 1}

\* loops_remaining as handed to __init__: -1 (the default) loops forever
InitLoops == (-1)..MaxLoops

---------------------------------------------------------------------------
\* Python list semantics.

Range(ps) == {ps[i] : i \in 1..Len(ps)}

\* ps[i] succeeds iff -len(ps) <= i < len(ps); otherwise IndexError
InRange(ps, i) == -Len(ps) <= i /\ i < Len(ps)

\* ps[i] for an index in range (sequences here are 1-based)
GetItem(ps, i) == IF i < 0 THEN ps[i + Len(ps) + 1] ELSE ps[i + 1]

\* the path self._paths[self._pos] denotes, 0 when the read raises IndexError
Current(ps, p) == IF InRange(ps, p) THEN GetItem(ps, p) ELSE 0

\* the path of a deleted file: the first of the list, the displayed one, or
\* one the list does not hold
DeletedPaths(ps, p) ==
    ({Current(ps, 0), Current(ps, p)} \ {0}) \cup NewPaths(ps)

\* list.insert(i, x): a negative i counts from the end, and i is clamped to
\* [0, len]
ListInsert(ps, i, x) ==
    LET n == Len(ps)
        j0 == IF i < 0 THEN i + n ELSE i
        j == IF j0 < 0 THEN 0 ELSE IF j0 > n THEN n ELSE j0
    IN SubSeq(ps, 1, j) \o <<x>> \o SubSeq(ps, j + 1, n)

\* random.sample(paths, len(paths)): the permutations of paths
Sample(ps) ==
    {[i \in 1..Len(ps) |-> ps[f[i]]] :
        f \in {g \in [1..Len(ps) -> 1..Len(ps)] :
                  \A a, b \in 1..Len(ps) : g[a] = g[b] => a = b}}

\* the outcome of "return self._paths[self._pos]" with _pos = p, _loops = l
Return(ps, p, l) ==
    [pos |-> p, loops |-> l,
     kind |-> IF InRange(ps, p) THEN "return" ELSE "IndexError",
     path |-> Current(ps, p)]

---------------------------------------------------------------------------
\* The methods as functions of the fields.

\* __next__ with the loop budget left alone at a wrap
NextStep_NoDecrement(ps, p, l) ==
    LET p1 == p + 1 IN
    IF p1 = Len(ps)
    THEN IF l = 0
         THEN [pos |-> p1, loops |-> l, kind |-> "StopIteration", path |-> 0]
         ELSE Return(ps, 0, l)
    ELSE Return(ps, p1, l)

\* __next__ with "if self._loops_remaining != 0" guarding the decrement
NextStep_DecrementNegative(ps, p, l) ==
    LET p1 == p + 1 IN
    IF p1 = Len(ps)
    THEN IF l = 0
         THEN [pos |-> p1, loops |-> l, kind |-> "StopIteration", path |-> 0]
         ELSE Return(ps, 0, l - 1)
    ELSE Return(ps, p1, l)

\* __next__ with "if self._pos > len(self._paths)" as the wrap test
NextStep_LateWrap(ps, p, l) ==
    LET p1 == p + 1 IN
    IF p1 > Len(ps)
    THEN IF l = 0
         THEN [pos |-> p1, loops |-> l, kind |-> "StopIteration", path |-> 0]
         ELSE Return(ps, 0, IF l > 0 THEN l - 1 ELSE l)
    ELSE Return(ps, p1, l)

\* ImagePaths.__next__
NextStep(ps, p, l) ==
    LET p1 == p + 1 IN
    IF p1 = Len(ps)
    THEN IF l = 0
         THEN [pos |-> p1, loops |-> l, kind |-> "StopIteration", path |-> 0]
         ELSE Return(ps, 0, IF l > 0 THEN l - 1 ELSE l)
    ELSE Return(ps, p1, l)

\* prev spending a loop when it wraps from the first element to the last
PrevStep_SpendsLoop(ps, p, l) ==
    LET p1 == p - 1 IN
    IF p1 < 0
    THEN Return(ps, Len(ps) - 1, IF l > 0 THEN l - 1 ELSE l)
    ELSE Return(ps, p1, l)

\* prev giving a loop back when it wraps from the first element to the last
PrevStep_RewindsLoop(ps, p, l) ==
    LET p1 == p - 1 IN
    IF p1 < 0
    THEN Return(ps, Len(ps) - 1, IF l >= 0 THEN l + 1 ELSE l)
    ELSE Return(ps, p1, l)

\* ImagePaths.prev
PrevStep(ps, p, l) ==
    LET p1 == p - 1 IN
    Return(ps, IF p1 < 0 THEN Len(ps) - 1 ELSE p1, l)

\* insert splicing the new path right after the position in sequential mode
\* too, instead of appending it
InsertStep_AfterPos(ps, p, rand, show, x, r) ==
    LET ps1 == IF rand THEN ListInsert(ps, r, x) ELSE ListInsert(ps, p + 1, x)
        insert_index == IF rand THEN r ELSE p + 1
    IN [paths |-> ps1,
        pos |-> IF show /\ Len(ps1) > 1 THEN p - (insert_index - 1) ELSE p]

\* ImagePaths.insert, with r the value random.randint returned.  __init__ is
\* given a list, so the "self._paths is not None" test always succeeds and
\* its else branch is not taken.  The position is moved by
\* "self._pos -= insert_index - 1", as the code has it.
InsertStep(ps, p, rand, show, x, r) ==
    LET ps1 == IF rand THEN ListInsert(ps, r, x) ELSE Append(ps, x)
        insert_index == IF rand THEN r ELSE Len(ps1) - 1
    IN [paths |-> ps1,
        pos |-> IF show /\ Len(ps1) > 1 THEN p - (insert_index - 1) ELSE p]

\* random.randint(a, b): the values it may return; empty when it raises
\* ValueError
RandInt(a, b) == a..b

---------------------------------------------------------------------------
\* The state machine.

NewRun(ps, p, l) == [len |-> 0, cur |-> Current(ps, p), loops |-> l, fresh |-> FALSE]

\* ImagePaths.__init__
Init ==
    /\ \E n \in 1..MaxInitLen, rand \in BOOLEAN :
          /\ rand_order = rand
          /\ paths \in (IF rand THEN Sample([i \in 1..n |-> i])
                                ELSE {[i \in 1..n |-> i]})
    /\ pos = 0
    /\ loops_remaining \in InitLoops
    /\ show_new_next \in BOOLEAN
    /\ init_loops = loops_remaining
    /\ result = [op |-> "init", arg |-> 0, kind |-> "return", path |-> 0,
                 before |-> 0]
    /\ run = [len |-> 0, cur |-> paths[1], loops |-> loops_remaining,
              fresh |-> TRUE]

__next__ ==
    /\ pos < Len(paths) + MaxOver
    /\ run.len < RunLimit(run, paths)
    /\ LET s == NextStep(paths, pos, loops_remaining) IN
          /\ pos' = s.pos
          /\ loops_remaining' = s.loops
          /\ result' = [op |-> "next", arg |-> 0, kind |-> s.kind,
                        path |-> s.path, before |-> Current(paths, pos)]
    /\ run' = [run EXCEPT !.len = @ + 1]
    /\ UNCHANGED <<paths, rand_order, show_new_next, init_loops>>

prev ==
    /\ LET s == PrevStep(paths, pos, loops_remaining) IN
          /\ pos' = s.pos
          /\ loops_remaining' = s.loops
          /\ result' = [op |-> "prev", arg |-> 0, kind |-> s.kind,
                        path |-> s.path, before |-> Current(paths, pos)]
          /\ run' = NewRun(paths, s.pos, s.loops)
    /\ UNCHANGED <<paths, rand_order, show_new_next, init_loops>>

insert ==
    /\ Len(paths) < MaxLen
    /\ \E new_img_path \in NewPaths(paths) :
          IF rand_order /\ RandInt(pos + 1, Len(paths)) = {}
          THEN /\ result' = [op |-> "insert", arg |-> new_img_path,
                             kind |-> "ValueError", path |-> 0,
                             before |-> Current(paths, pos)]
               /\ run' = NewRun(paths, pos, loops_remaining)
               /\ UNCHANGED <<pos, paths>>
          ELSE \E r \in (IF rand_order THEN RandInt(pos + 1, Len(paths))
                                       ELSE {0}) :
                  LET s == InsertStep(paths, pos, rand_order, show_new_next,
                                      new_img_path, r) IN
                     /\ paths' = s.paths
                     /\ pos' = s.pos
                     /\ result' = [op |-> "insert", arg |-> new_img_path,
                                   kind |-> "return", path |-> 0,
                                   before |-> Current(paths, pos)]
                     /\ run' = NewRun(s.paths, s.pos, loops_remaining)
    /\ UNCHANGED <<loops_remaining, rand_order, show_new_next, init_loops>>

delete ==
    /\ \E deleted_img_path \in DeletedPaths(paths, pos) :
          result' = [op |-> "delete", arg |-> deleted_img_path,
                     kind |-> "return", path |-> 0,
                     before |-> Current(paths, pos)]
    /\ run' = NewRun(paths, pos, loops_remaining)
    /\ UNCHANGED <<pos, paths, loops_remaining, rand_order, show_new_next,
                   init_loops>>

Next == __next__ \/ prev \/ insert \/ delete

Spec == Init /\ [][Next]_vars

---------------------------------------------------------------------------
\* The key handler.

\* the classes of key symbols on_key_press tells apart
KeyClasses == <<"NEXT_KEYS", "PREV_KEYS", "FIRST_KEYS", "LAST_KEYS", "other">>

\* next_image, prev_image, first_image, last_image: each only calls
\* logging.debug, so the cursor fields come back as they went in
next_image(p, l) == [pos |-> p, loops |-> l]

prev_image(p, l) == [pos |-> p, loops |-> l]

first_image(p, l) == [pos |-> p, loops |-> l]

last_image(p, l) == [pos |-> p, loops |-> l]

\* the if/elif chain of on_key_press
KeyStep(symbol, p, l) ==
    IF symbol = "NEXT_KEYS" THEN next_image(p, l)
    ELSE IF symbol = "PREV_KEYS" THEN prev_image(p, l)
    ELSE IF symbol = "FIRST_KEYS" THEN first_image(p, l)
    ELSE IF symbol = "LAST_KEYS" THEN last_image(p, l)
    ELSE [pos |-> p, loops |-> l]

\* on_key_press; result.arg is the index in KeyClasses of the key's class
on_key_press ==
    /\ \E k \in 1..Len(KeyClasses) :
          LET s == KeyStep(KeyClasses[k], pos, loops_remaining) IN
             /\ pos' = s.pos
             /\ loops_remaining' = s.loops
             /\ result' = [op |-> "on_key_press", arg |-> k,
                           kind |-> "return", path |-> 0,
                           before |-> Current(paths, pos)]
             /\ run' = NewRun(paths, s.pos, s.loops)
    /\ UNCHANGED <<paths, rand_order, show_new_next, init_loops>>

NextKeys == Next \/ on_key_press

\* the cursor with the key handler bound to the window
SpecKeys == Init /\ [][NextKeys]_vars

TypeOK ==
    /\ pos \in Int
    /\ paths \in Seq(AllPaths)
    /\ loops_remaining \in Int
    /\ rand_order \in BOOLEAN
    /\ show_new_next \in BOOLEAN

---------------------------------------------------------------------------
\* The directory scan.

IMG_EXTS == {"jpg", "jpeg", "png", "gif"}

\* what the name of a file in the tree may end with
Suffixes == IMG_EXTS \cup {"txt"}

\* the files os.walk yields, in the order the two loops visit them (top-down,
\* sorted(files) within a directory): file i ends with files[i]
Listings == UNION {[1..n -> Suffixes] : n \in 0..MaxFiles}

\* get_image_paths: the visited files whose name ends with one of IMG_EXTS,
\* in visiting order; the list is returned whatever its length
get_image_paths(files) ==
    SelectSeq([i \in 1..Len(files) |-> i], LAMBDA i : files[i] \in IMG_EXTS)

\* the paths of a catalog, numbered in catalog order
Catalog(found) == [i \in 1..Len(found) |-> i]

\* ImagePaths.__init__ on the list get_image_paths returns
InitScan ==
    /\ \E files \in Listings, rand \in BOOLEAN :
          /\ rand_order = rand
          /\ paths \in (IF rand
                         THEN Sample(Catalog(get_image_paths(files)))
                         ELSE {Catalog(get_image_paths(files))})
    /\ pos = 0
    /\ loops_remaining \in InitLoops
    /\ show_new_next \in BOOLEAN
    /\ init_loops = loops_remaining
    /\ result = [op |-> "init", arg |-> 0, kind |-> "return", path |-> 0,
                 before |-> 0]
    /\ run = [len |-> 0, cur |-> Current(paths, 0), loops |-> loops_remaining,
              fresh |-> TRUE]

\* the cursor built from a scanned directory
SpecScan == InitScan /\ [][Next]_vars

---------------------------------------------------------------------------
\* Properties.

\* C1: after every operation, 0 <= position < len(order).
C1_PositionInRange == 0 <= pos /\ pos < Len(paths)

\* C2: reading order[position] never fails and yields an element of order,
\* and __next__ either returns a path or signals Exhausted (StopIteration):
\* it never raises IndexError.
C2_CurrentNeverFails ==
    /\ InRange(paths, pos)
    /\ Current(paths, pos) \in Range(paths)
    /\ result.op = "next" => result.kind \in {"return", "StopIteration"}

\* C3: insert leaves the displayed path unchanged: order[position] after an
\* insert is the path order[position] was before it.
C3_InsertKeepsCurrent ==
    (result.op = "insert" /\ result.kind = "return" /\ result.before # 0)
        => Current(paths, pos) = result.before

\* C4: with show_new_next (ShowNext), the __next__ call that follows
\* insert(p) returns p.
C4_NextAfterInsertReturnsNew ==
    [][(show_new_next /\ result.op = "insert" /\ result.kind = "return"
            /\ result'.op = "next")
        => (result'.kind = "return" /\ result'.path = result.arg)]_vars

\* C5: a sequential cursor over n paths built with loops_remaining = L >= 0
\* and driven by __next__ alone: call k, for k <= (L+1)*n - 1, returns the
\* path at index k mod n and leaves loops_remaining = L - (k div n); call
\* (L+1)*n raises StopIteration.
C5_LoopBudget ==
    (run.fresh /\ ~rand_order /\ init_loops >= 0 /\ run.len >= 1) =>
        LET n == Len(paths)
            L == init_loops
            k == run.len
        IN /\ k <= (L + 1) * n - 1 =>
                /\ result.kind = "return"
                /\ pos = k % n
                /\ result.path = paths[(k % n) + 1]
                /\ loops_remaining = L - (k \div n)
           /\ k = (L + 1) * n => result.kind = "StopIteration"

\* C5 witness: [a, b, c] with L = 1: five calls returned paths, the sixth
\* raised StopIteration.
C5_Witness ==
    /\ run.fresh /\ ~rand_order /\ init_loops = 1 /\ Len(paths) = 3
    /\ run.len = 6 /\ result.kind = "StopIteration" /\ result.before = 3

\* C6: once __next__ has raised StopIteration, the __next__ call after it
\* raises StopIteration too.
C6_ExhaustedIsTerminal ==
    [][(result.op = "next" /\ result.kind = "StopIteration"
            /\ result'.op = "next")
        => result'.kind = "StopIteration"]_vars

\* C7: built with loops_remaining = -1, the cursor never raises
\* StopIteration and loops_remaining stays -1.
C7_InfiniteNeverExhausted ==
    init_loops = -1 =>
        (loops_remaining = -1 /\ result.kind # "StopIteration")

\* C7 witness: built with -1, a full pass of __next__ calls has wrapped to
\* the first path.
C7_Witness ==
    /\ init_loops = -1 /\ run.fresh /\ run.len = Len(paths) /\ Len(paths) > 1
    /\ result.op = "next" /\ result.kind = "return" /\ pos = 0

\* C8: len(order) consecutive __next__ calls, begun in a state that displays
\* a path and has loops_remaining = -1 or >= 1, return the path displayed at
\* the start.
C8_FullPassReturns ==
    (run.len = Len(paths) /\ run.cur # 0
            /\ (run.loops = -1 \/ run.loops >= 1))
        => (result.kind = "return" /\ result.path = run.cur)

\* C8 witness: a pass begun after another operation, away from index 0, has
\* wrapped, spent one loop and returned the path it started from.
C8_Witness ==
    /\ ~run.fresh /\ run.len = Len(paths) /\ Len(paths) > 1
    /\ run.loops >= 1 /\ loops_remaining = run.loops - 1
    /\ pos > 0 /\ result.path = run.cur

\* C9: __next__ followed immediately by prev leaves the path displayed
\* before the __next__ displayed again.
C9_NextThenPrevRestores ==
    [][(result.op = "next" /\ result.before # 0 /\ result'.op = "prev")
        => (result'.kind = "return" /\ result'.path = result.before)]_vars

\* C10: loops_remaining changes only in a __next__ step that takes pos from
\* the last index to 0, and then by exactly -1; prev, insert, delete and a
\* __next__ that does not wrap leave it as it is.
C10_LoopsChangeOnlyOnWrap ==
    [][loops_remaining' # loops_remaining =>
        /\ result'.op = "next"
        /\ pos = Len(paths) - 1
        /\ pos' = 0
        /\ loops_remaining' = loops_remaining - 1]_vars

\* C10 witness: a __next__ from the last path has wrapped and spent a loop,
\* after a prev that wrapped backward and spent none.
C10_Witness ==
    /\ result.op = "next" /\ pos = 0 /\ ~run.fresh /\ run.len = 1
    /\ run.cur = paths[Len(paths)] /\ Len(paths) > 1
    /\ run.loops = init_loops /\ loops_remaining = init_loops - 1

\* C11: delete(p) with p in order and len(order) > 1 removes p: afterwards p
\* does not occur in order and len(order) is one less.
C11_DeleteRemoves ==
    [][(result'.op = "delete" /\ result'.arg \in Range(paths)
            /\ Len(paths) > 1)
        => (result'.arg \notin Range(paths')
            /\ Len(paths') = Len(paths) - 1)]_vars

\* C12: a navigation key press is applied to the cursor: after on_key_press
\* of a Next key pos is where __next__ takes it, of a Previous key where
\* prev takes it, of a First key 0 and of a Last key len(order) - 1.
C12_KeyPressMovesCursor ==
    [][result'.op = "on_key_press" =>
        LET symbol == KeyClasses[result'.arg] IN
           /\ symbol = "NEXT_KEYS"
                => pos' = NextStep(paths, pos, loops_remaining).pos
           /\ symbol = "PREV_KEYS"
                => pos' = PrevStep(paths, pos, loops_remaining).pos
           /\ symbol = "FIRST_KEYS" => pos' = 0
           /\ symbol = "LAST_KEYS" => pos' = Len(paths) - 1]_vars

\* C13: the order of a cursor is never empty: a scan that finds no image
\* file does not yield a cursor over an empty list, and no operation empties
\* the list.
C13_OrderNeverEmpty == Len(paths) >= 1

\* the 1-based place of x in ps
IndexOf(ps, x) == CHOOSE i \in 1..Len(ps) : ps[i] = x

\* C14: in random mode every insert(p) finds an index to splice at: the call
\* does not fail, the (0-based) index i where p lands satisfies
\* position < i <= len(order), both taken before the call, and p lands after
\* the displayed path.
C14_RandomInsertAfterCurrent ==
    [][(rand_order /\ result'.op = "insert") =>
        /\ result'.kind = "return"
        /\ LET i == IndexOf(paths', result'.arg) - 1 IN
              /\ pos < i
              /\ i <= Len(paths)
              /\ result'.before # 0 =>
                    IndexOf(paths', result'.before) - 1 < i]_vars

\* whether one of the next k __next__ calls, made one after the other from
\* position p with l loops left, returns x
RECURSIVE ReturnedWithin(_, _, _, _, _)
ReturnedWithin(ps, p, l, x, k) ==
    IF k = 0 THEN FALSE
    ELSE LET s == NextStep(ps, p, l) IN
            \/ (s.kind = "return" /\ s.path = x)
            \/ ReturnedWithin(ps, s.pos, s.loops, x, k - 1)

\* C15: without show_new_next (Append), insert(p) leaves the position as it
\* was, in both modes, and one of the next len(order) __next__ calls
\* returns p.
C15_AppendKeepsPositionAndReaches ==
    [][(~show_new_next /\ result'.op = "insert") =>
        /\ pos' = pos
        /\ ReturnedWithin(paths', pos', loops_remaining', result'.arg,
                          Len(paths'))]_vars

\* C16: in sequential mode insert(p) appends: the order after the call is the
\* order before it followed by p, under either insertion policy.
C16_SequentialInsertAppends ==
    [][(~rand_order /\ result'.op = "insert")
        => paths' = Append(paths, result'.arg)]_vars

\* C16 witness: d was inserted into [a, b, c] while a was displayed and is
\* the last of four.
C16_Witness ==
    /\ ~rand_order /\ result.op = "insert" /\ result.kind = "return"
    /\ result.before = 1 /\ Len(paths) = 4 /\ paths[4] = result.arg

\* C17: prev moves the position to position - 1 when position > 0 and to
\* len(order) - 1 when position = 0, and returns the path at the new
\* position.
C17_PrevMovesBack ==
    [][result'.op = "prev" =>
        /\ pos > 0 => pos' = pos - 1
        /\ pos = 0 => pos' = Len(paths) - 1
        /\ result'.kind = "return"
        /\ result'.path = Current(paths, pos')]_vars

\* C18: loops_remaining never grows, no step lowers it by more than one, and
\* a cursor built with loops_remaining >= 0 never has a negative one.
C18_LoopsNonIncreasing ==
    /\ [](init_loops >= 0 => loops_remaining >= 0)
    /\ [][/\ loops_remaining' <= loops_remaining
          /\ loops_remaining' >= loops_remaining - 1]_vars

\* C18 witness: a budget of one was spent at the first wrap, and the second
\* wrap was refused with the budget still at zero.
C18_Witness ==
    /\ init_loops = 1 /\ loops_remaining = 0
    /\ result.op = "next" /\ result.kind = "StopIteration"

\* ps without x
Without(ps, x) == SelectSeq(ps, LAMBDA y : y # x)

\* C19: insert(p) makes the order one longer and keeps the other paths in
\* their order (the order after the call without p is the order before it),
\* in every mode and policy; __next__ and prev leave the order as it is.
C19_InsertKeepsOthers ==
    [][/\ result'.op = "insert" =>
            /\ Len(paths') = Len(paths) + 1
            /\ Without(paths', result'.arg) = paths
       /\ result'.op \in {"next", "prev"} => paths' = paths]_vars

====
